---- MODULE Spec2Model ----
(***************************************************************************)
(* A model of the Kaleidoscope front end: the lexer (GetTok), the          *)
(* precedence-climbing parser, the read loop, the AST nodes and the        *)
(* AST-to-backend lowering of CodeGenerator.                               *)
(*                                                                         *)
(* Characters are their ASCII codes, as in the C++ (`int LastChar`,        *)
(* `int _value`), so that a token value can be compared with '(' or '+'.   *)
(* Strings are sequences of character codes.                               *)
(***************************************************************************)
EXTENDS Integers, Sequences, FiniteSets

VARIABLES
    \* ---- lexer / parser / read loop (toy.cpp, parser.cpp) ----
    input,          \* the whole of standard input (never changes)
    rest,           \* the characters getchar() has not returned yet
    LastChar,       \* GetTok's static pushback character
    IdentifierStr,  \* side channel: text of the last identifier
    NumVal,         \* side channel: value of the last number
    CurTok,         \* the parser's one token of lookahead
    pc,             \* "main" | "loop" | "returned" | "aborted"
    nunits,         \* number of Handle* calls made by MainLoop so far
    unit,           \* which handler ran last: "none" | "def" | "extern" | "expr"
    parsed,         \* what that handler's Parse* call returned (Null = nullptr)
    errs,           \* the LogError lines that handler wrote
    \* ---- AST node under lowering and the backend (ast.*, codegen.cpp) ----
    node,           \* the top-level AST node the driver holds
    TheModule,      \* the backend's function list
    NamedValues,    \* the symbol table
    ret,            \* what the last operation on the node returned
    diags,          \* the LogErrorV lines that operation wrote
    out,            \* what print() wrote last
    gpc             \* "run" | "crashed"

lexvars == <<input, rest, LastChar, IdentifierStr, NumVal, CurTok, pc, nunits,
             unit, parsed, errs>>
genvars == <<node, TheModule, NamedValues, ret, diags, out, gpc>>
vars == <<input, rest, LastChar, IdentifierStr, NumVal, CurTok, pc, nunits,
          unit, parsed, errs, node, TheModule, NamedValues, ret, diags, out, gpc>>

(***************************************************************************)
(* Bounds of the model.                                                    *)
(***************************************************************************)
MaxOps == 3        \* operators in a generated operator chain
MaxFree == 4       \* length of the exhaustively generated inputs
MaxArgs == 3       \* arguments / parameters in a generated call or prototype
MaxFuncs == 2      \* functions the backend module may hold

(***************************************************************************)
(* Characters.                                                             *)
(***************************************************************************)
EOF == -1
Null == [kind |-> "null"]

isspace(c) == c \in {32, 9, 10, 11, 12, 13}
isdigit(c) == c \in 48..57
isalpha(c) == c \in (65..90) \cup (97..122)
isalnum(c) == isalpha(c) \/ isdigit(c)
isascii(c) == c \in 0..127

(***************************************************************************)
(* Tokens (class Token): a type and an int value, default value -1.        *)
(***************************************************************************)
Token(t, v) == [type |-> t, value |-> v]
TokenDefault == Token("tok_undef", -1)
TokenOf(t) == Token(t, -1)

(***************************************************************************)
(* The lexer.  A lexer/parser state is a record                            *)
(*   [LastChar, rest, IdentifierStr, NumVal, CurTok, err, thrown].         *)
(***************************************************************************)
\* the one element of a singleton: Only({e(x) : x \in {v}}) is e with x
\* holding the value of v, as a local variable assigned once holds it
Only(S) == CHOOSE x \in S : TRUE

\* LastChar = getchar(): EOF once standard input is exhausted.
getchar(s0) ==
    Only({
        IF s.rest = <<>>
        THEN [s EXCEPT !.LastChar = EOF]
        ELSE [s EXCEPT !.LastChar = Head(s.rest), !.rest = Tail(s.rest)]
        : s \in {s0} })

\* while (isspace(LastChar)) LastChar = getchar();
RECURSIVE SkipSpaces(_)
SkipSpaces(s0) ==
    Only({ IF isspace(s.LastChar) THEN SkipSpaces(getchar(s)) ELSE s
           : s \in {s0} })

\* while (isalnum((LastChar = getchar()))) IdentifierStr += LastChar;
RECURSIVE ReadIdentifier(_)
\* ReadIdentifier stopping at the first character that is not a letter
ReadIdentifier_alpha(s) ==
    Only({
        IF isalpha(t.LastChar)
        THEN ReadIdentifier([t EXCEPT !.IdentifierStr = Append(@, t.LastChar)])
        ELSE t
        : t \in {getchar(s)} })

ReadIdentifier(s) ==
    Only({
        IF isalnum(t.LastChar)
        THEN ReadIdentifier([t EXCEPT !.IdentifierStr = Append(@, t.LastChar)])
        ELSE t
        : t \in {getchar(s)} })

\* do { NumStr += LastChar; LastChar = getchar(); }
\* while (isdigit(LastChar) || LastChar == '.');
RECURSIVE ReadNumStr(_, _)
ReadNumStr(s0, NumStr) ==
    Only({
        IF isdigit(t.LastChar) \/ t.LastChar = 46
        THEN ReadNumStr(t, n)
        ELSE [s |-> t, NumStr |-> n]
        : n \in {Append(NumStr, s0.LastChar)}, t \in {getchar(s0)} })

\* do { LastChar = getchar(); }
\* while (LastChar != EOF && LastChar != '\n' && LastChar != '\r');
RECURSIVE SkipComment(_)
SkipComment(s) ==
    Only({
        IF t.LastChar # EOF /\ t.LastChar # 10 /\ t.LastChar # 13
        THEN SkipComment(t)
        ELSE t
        : t \in {getchar(s)} })

(***************************************************************************)
(* std::stod on a run of digits and '.': the longest prefix of the form    *)
(* digits ['.' digits] is converted; std::invalid_argument when that       *)
(* prefix holds no digit.  A double is modelled exactly, as its whole part *)
(* and its fraction digits without trailing zeros.                         *)
(***************************************************************************)
RECURSIVE DigitRun(_)
DigitRun(str) ==
    IF str # <<>> /\ isdigit(Head(str))
    THEN <<Head(str)>> \o DigitRun(Tail(str))
    ELSE <<>>

RECURSIVE DecimalValue(_)
DecimalValue(ds) ==
    IF ds = <<>> THEN 0
    ELSE 10 * DecimalValue(SubSeq(ds, 1, Len(ds) - 1)) + (ds[Len(ds)] - 48)

RECURSIVE StripZeros(_)
StripZeros(ds) ==
    IF ds # <<>> /\ ds[Len(ds)] = 48
    THEN StripZeros(SubSeq(ds, 1, Len(ds) - 1))
    ELSE ds

Double(w, f) == [whole |-> w, frac |-> f]

stod(NumStr) ==
    LET ip == DigitRun(NumStr)
        after == SubSeq(NumStr, Len(ip) + 1, Len(NumStr))
        fp == IF after # <<>> /\ Head(after) = 46
              THEN DigitRun(Tail(after)) ELSE <<>>
    IN  IF ip = <<>> /\ fp = <<>>
        THEN [ok |-> FALSE, val |-> Double(0, <<>>)]
        ELSE [ok |-> TRUE,
              val |-> Double(DecimalValue(ip),
                             [i \in 1..Len(StripZeros(fp)) |-> fp[i] - 48])]

\* The implicit double -> int conversion of Token(tok_number, NumVal).
DoubleToInt(d) == d.whole

(***************************************************************************)
(* GetTok: returns [tok, s].  A rethrown std::stod exception leaves        *)
(* s.thrown set; nothing computed after that is observed by anyone, and    *)
(* the exhausted input only makes the unwinding finite.                    *)
(***************************************************************************)
RECURSIVE GetTok(_)
GetTok(s0) ==
    Only({
        IF isalpha(s.LastChar) THEN
            Only({
                IF t.IdentifierStr = <<100, 101, 102>> THEN
                    [tok |-> TokenOf("tok_def"), s |-> t]
                ELSE IF t.IdentifierStr = <<101, 120, 116, 101, 114, 110>> THEN
                    [tok |-> TokenOf("tok_extern"), s |-> t]
                ELSE IF t.IdentifierStr = <<40>> THEN
                    [tok |-> Token("tok_lp", 40), s |-> t]
                ELSE IF t.IdentifierStr = <<59>> THEN
                    [tok |-> Token("tok_lp", 59), s |-> t]
                ELSE
                    [tok |-> TokenOf("tok_identifier"), s |-> t]
                : t \in {ReadIdentifier([s EXCEPT !.IdentifierStr = <<s.LastChar>>])} })
        ELSE IF isdigit(s.LastChar) \/ s.LastChar = 46 THEN
            Only({
                Only({
                    IF d.ok
                    THEN [tok |-> Token("tok_number", DoubleToInt(d.val)),
                          s |-> [r.s EXCEPT !.NumVal = d.val]]
                    ELSE [tok |-> TokenOf("tok_eof"),
                          s |-> [r.s EXCEPT !.thrown = TRUE, !.rest = <<>>,
                                            !.LastChar = EOF]]
                    : d \in {stod(r.NumStr)} })
                : r \in {ReadNumStr(s, <<>>)} })
        ELSE
            Only({
                IF s.LastChar = 35 /\ t.LastChar # EOF THEN GetTok(t)
                ELSE IF t.LastChar = EOF
                THEN [tok |-> TokenOf("tok_eof"), s |-> t]
                ELSE [tok |-> Token("tok_op", t.LastChar), s |-> getchar(t)]
                : t \in {IF s.LastChar = 35 THEN SkipComment(s) ELSE s} })
        : s \in {SkipSpaces(s0)} })

\* return CurTok = GetTok();
getNextToken(s) ==
    Only({ [r.s EXCEPT !.CurTok = r.tok] : r \in {GetTok(s)} })

\* std::cerr << "LogError : " << Str; return nullptr;
LogError(s, Str) == [v |-> Null, s |-> [s EXCEPT !.err = Append(@, Str)]]

(***************************************************************************)
(* AST nodes (ast.h).  A `char` holds the low eight bits, signed.          *)
(***************************************************************************)
ToChar(v) == ((v + 128) % 256) - 128

NumberExprAST(v) == [kind |-> "Number", Val |-> v]
VariableExprAST(n) == [kind |-> "Variable", Name |-> n]
BinaryExprAST(op, lhs, rhs) ==
    [kind |-> "Binary", Op |-> ToChar(op), LHS |-> lhs, RHS |-> rhs]
CallsExprAST(callee, args) == [kind |-> "Call", Callee |-> callee, Args |-> args]
PrototypeAST(name, args) == [kind |-> "Prototype", Name |-> name, Args |-> args]
FunctionAST(p, b) == [kind |-> "Function", Proto |-> p, Body |-> b]

(***************************************************************************)
(* The parser (parser.cpp).  Every Parse* operator takes the state and     *)
(* returns [v, s]: the node built (Null for nullptr) and the state after.  *)
(***************************************************************************)
\* GetTokPrecedence with the powers of '<' and '*' exchanged
GetTokPrecedence_swapped(s) ==
    IF ~isascii(s.CurTok.value) THEN -1
    ELSE CASE s.CurTok.value = 60 -> 40
           [] s.CurTok.value = 43 -> 20
           [] s.CurTok.value = 45 -> 20
           [] s.CurTok.value = 42 -> 10
           [] OTHER -> -1

\* GetTokPrecedence with '/' in the table, at the power of '*'
GetTokPrecedence_withDivide(s) ==
    IF ~isascii(s.CurTok.value) THEN -1
    ELSE CASE s.CurTok.value = 60 -> 10
           [] s.CurTok.value = 43 -> 20
           [] s.CurTok.value = 45 -> 20
           [] s.CurTok.value = 42 -> 40
           [] s.CurTok.value = 47 -> 40
           [] OTHER -> -1

\* CurTok.value() is compared whatever CurTok.type() is.
GetTokPrecedence(s) ==
    IF ~isascii(s.CurTok.value) THEN -1
    ELSE CASE s.CurTok.value = 60 -> 10
           [] s.CurTok.value = 43 -> 20
           [] s.CurTok.value = 45 -> 20
           [] s.CurTok.value = 42 -> 40
           [] OTHER -> -1

RECURSIVE ParseExpression(_)
RECURSIVE ParseBinOpRHS(_, _, _)
RECURSIVE ParsePrimary(_)
RECURSIVE ParseParenExpr(_)
RECURSIVE ParseIdentifierExpr(_)
RECURSIVE ParseCallArgs(_, _)

\* ParseNumberExpr leaving the number as the current token
ParseNumberExpr_noAdvance(s) ==
    [v |-> NumberExprAST(s.NumVal), s |-> s]

ParseNumberExpr(s) ==
    [v |-> NumberExprAST(s.NumVal), s |-> getNextToken(s)]

ParseParenExpr(s) ==
    Only({
        IF V.v = Null THEN [v |-> Null, s |-> V.s]
        ELSE IF V.s.CurTok.value # 41 THEN LogError(V.s, "expected ')'")
        ELSE [v |-> V.v, s |-> getNextToken(V.s)]
        : V \in {ParseExpression(getNextToken(s))} })

\* The while(1) loop of ParseIdentifierExpr: [ok, Args, s].
ParseCallArgs(s, Args) ==
    Only({
        IF Arg.v = Null THEN [ok |-> FALSE, Args |-> Args, s |-> Arg.s]
        ELSE IF Arg.s.CurTok.value = 41
             THEN [ok |-> TRUE, Args |-> Append(Args, Arg.v), s |-> Arg.s]
        ELSE IF Arg.s.CurTok.value # 44
             THEN [ok |-> FALSE, Args |-> Append(Args, Arg.v),
                   s |-> LogError(Arg.s, "Expected ')' or ',' ").s]
        ELSE ParseCallArgs(getNextToken(Arg.s), Append(Args, Arg.v))
        : Arg \in {ParseExpression(s)} })

ParseIdentifierExpr(s) ==
    Only({
        IF s1.CurTok.value # 40
        THEN [v |-> VariableExprAST(s.IdentifierStr), s |-> s1]
        ELSE Only({
                IF s2.CurTok.value # 41
                THEN Only({
                        IF ~a.ok THEN [v |-> Null, s |-> a.s]
                        ELSE [v |-> CallsExprAST(s.IdentifierStr, a.Args),
                              s |-> getNextToken(a.s)]
                        : a \in {ParseCallArgs(s2, <<>>)} })
                ELSE [v |-> CallsExprAST(s.IdentifierStr, <<>>),
                      s |-> getNextToken(s2)]
                : s2 \in {getNextToken(s1)} })
        : s1 \in {getNextToken(s)} })

ParsePrimary(s) ==
    CASE s.CurTok.type = "tok_identifier" -> ParseIdentifierExpr(s)
      [] s.CurTok.type = "tok_number" -> ParseNumberExpr(s)
      [] s.CurTok.type = "tok_lp" -> ParseParenExpr(s)
      [] OTHER -> LogError(s, "unknown token when expecting an expression")

ParseExpression(s) ==
    Only({ IF LHS.v = Null THEN LHS ELSE ParseBinOpRHS(0, LHS.v, LHS.s)
           : LHS \in {ParsePrimary(s)} })

\* ParseBinOpRHS recursing with TokPrec instead of TokPrec + 1
ParseBinOpRHS_samePrec(ExprPrec, LHS, s) ==
    Only({
        IF TokPrec < ExprPrec THEN [v |-> LHS, s |-> s]
        ELSE Only({
                IF RHS.v = Null THEN [v |-> Null, s |-> RHS.s]
                ELSE Only({
                        IF RHS2.v = Null THEN [v |-> Null, s |-> RHS2.s]
                        ELSE ParseBinOpRHS(ExprPrec,
                                           BinaryExprAST(s.CurTok.value, LHS, RHS2.v),
                                           RHS2.s)
                        : RHS2 \in {IF TokPrec < GetTokPrecedence(RHS.s)
                                    THEN ParseBinOpRHS(TokPrec, RHS.v, RHS.s)
                                    ELSE RHS} })
                : RHS \in {ParsePrimary(getNextToken(s))} })
        : TokPrec \in {GetTokPrecedence(s)} })

\* BinOp is s.CurTok.value, read before the operator is consumed; NextPrec
\* is GetTokPrecedence after the right operand.
ParseBinOpRHS(ExprPrec, LHS, s) ==
    Only({
        IF TokPrec < ExprPrec THEN [v |-> LHS, s |-> s]
        ELSE Only({
                IF RHS.v = Null THEN [v |-> Null, s |-> RHS.s]
                ELSE Only({
                        IF RHS2.v = Null THEN [v |-> Null, s |-> RHS2.s]
                        ELSE ParseBinOpRHS(ExprPrec,
                                           BinaryExprAST(s.CurTok.value, LHS, RHS2.v),
                                           RHS2.s)
                        : RHS2 \in {IF TokPrec < GetTokPrecedence(RHS.s)
                                    THEN ParseBinOpRHS(TokPrec + 1, RHS.v, RHS.s)
                                    ELSE RHS} })
                : RHS \in {ParsePrimary(getNextToken(s))} })
        : TokPrec \in {GetTokPrecedence(s)} })

\* while (getNextToken().type() == tok_identifier) ArgNames.push_back(...)
RECURSIVE ReadArgNames(_, _)
ReadArgNames(s, ArgNames) ==
    Only({
        IF t.CurTok.type = "tok_identifier"
        THEN ReadArgNames(t, Append(ArgNames, t.IdentifierStr))
        ELSE [s |-> t, ArgNames |-> ArgNames]
        : t \in {getNextToken(s)} })

ParsePrototype(s) ==
    IF s.CurTok.type # "tok_identifier"
    THEN LogError(s, "Expected function name in prototype")
    ELSE Only({
            IF s1.CurTok.value # 40
            THEN LogError(s1, "Expected '(' in prototype")
            ELSE Only({
                    IF a.s.CurTok.value # 41
                    THEN LogError(a.s, "Expected ')' in prototype")
                    ELSE [v |-> PrototypeAST(s.IdentifierStr, a.ArgNames),
                          s |-> getNextToken(a.s)]
                    : a \in {ReadArgNames(s1, <<>>)} })
            : s1 \in {getNextToken(s)} })

ParseDefinition(s) ==
    Only({
        IF Proto.v = Null THEN Proto
        ELSE Only({
                IF E.v # Null THEN [v |-> FunctionAST(Proto.v, E.v), s |-> E.s]
                ELSE [v |-> Null, s |-> E.s]
                : E \in {ParseExpression(Proto.s)} })
        : Proto \in {ParsePrototype(getNextToken(s))} })

ParseExtern(s) == ParsePrototype(getNextToken(s))

ParseTopLevelExpr(s) ==
    Only({
        IF E.v # Null
        THEN [v |-> FunctionAST(PrototypeAST(<<>>, <<>>), E.v), s |-> E.s]
        ELSE [v |-> Null, s |-> E.s]
        : E \in {ParseExpression(s)} })

(***************************************************************************)
(* Inputs.  Standard input is a finite character sequence drawn from the   *)
(* families below; every family is bounded by one of the Max* bounds.      *)
(***************************************************************************)
RECURSIVE Strings(_, _)
\* all strings over `alphabet` of length exactly n
Strings(alphabet, n) ==
    IF n = 0 THEN {<<>>}
    ELSE {Append(w, c) : w \in Strings(alphabet, n - 1), c \in alphabet}

StringsUpTo(alphabet, n) == UNION {Strings(alphabet, k) : k \in 0..n}

\* "1", "2"
NumLexemes == {<<49>>, <<50>>}
\* '<', '+', '-', '*'
TableOps == {60, 43, 45, 42}

RECURSIVE Chains(_)
\* number (op number)^k
Chains(k) ==
    IF k = 0 THEN NumLexemes
    ELSE {c \o <<op>> \o n : c \in Chains(k - 1), op \in TableOps, n \in NumLexemes}

ExprInputs == UNION {Chains(k) : k \in 0..MaxOps}

\* the expressions of the documented examples, with and without a final ';'
ExampleInputs ==
    LET E == { <<49, 43, 50, 42, 51>>,               \* 1+2*3
               <<49, 42, 50, 43, 51>>,               \* 1*2+3
               <<49, 60, 50, 43, 51>>,               \* 1<2+3
               <<49, 45, 50, 45, 51>>,               \* 1-2-3
               <<40, 49, 43, 50, 41, 42, 51>>,       \* (1+2)*3
               <<40, 49, 41>>,                       \* (1)
               <<102, 40, 49, 44, 50, 44, 51, 41>>,  \* f(1,2,3)
               <<102, 40, 41>>,                      \* f()
               <<120, 32, 52, 48>>,                  \* x 40
               <<49, 32, 52, 51, 32, 50>> }          \* 1 43 2
    IN  E \cup {Append(e, 59) : e \in E}

\* "f(" followed by up to MaxArgs + 2 characters of  1 4 , ) and blank
CallInputs ==
    {<<102, 40>> \o w : w \in StringsUpTo({49, 52, 44, 41, 32}, MaxArgs + 2)}

\* "f(" a1 "," ... "," an ")" with every ai a well-formed argument
ArgTexts == {<<49>>, <<120>>, <<49, 43, 50>>, <<103, 40, 50, 41>>}
RECURSIVE ArgLists(_)
ArgLists(n) ==
    IF n = 0 THEN {<<>>}
    ELSE IF n = 1 THEN ArgTexts
    ELSE {l \o <<44>> \o a : l \in ArgLists(n - 1), a \in ArgTexts}
GoodCallInputs ==
    {<<102, 40>> \o l \o <<41>> : l \in UNION {ArgLists(n) : n \in 0..MaxArgs}}

\* "extern" or "extern f" or "def f", then up to MaxArgs + 1 tokens
\* of  x  (  )  ,  41  each preceded by a blank
ProtoHeads == { <<101, 120, 116, 101, 114, 110>>,
                <<101, 120, 116, 101, 114, 110, 32, 102>>,
                <<100, 101, 102, 32, 102>> }
ProtoToks == { <<120>>, <<40>>, <<41>>, <<44>>, <<52, 49>> }
RECURSIVE TokTexts(_)
TokTexts(n) ==
    IF n = 0 THEN {<<>>}
    ELSE {w \o <<32>> \o k : w \in TokTexts(n - 1), k \in ProtoToks}
ProtoInputs ==
    {h \o w : h \in ProtoHeads, w \in UNION {TokTexts(n) : n \in 0..(MaxArgs + 1)}}

\* every string of at most MaxFree characters over  d e f 1 blank (
FreeInputs == StringsUpTo({100, 101, 102, 49, 32, 40}, MaxFree)

\* words around the two keywords, followed by at most two more characters
WordInputs ==
    LET W == { <<100, 101, 102>>,                         \* def
               <<101, 120, 116, 101, 114, 110>>,          \* extern
               <<100, 101, 102, 105, 110, 101>>,          \* define
               <<100, 101, 102, 49>>,                     \* def1
               <<101, 120, 116, 101, 114>>,               \* exter
               <<69, 120, 116, 101, 114, 110>>,           \* Extern
               <<68, 101, 102>> }                         \* Def
    IN  {w \o x : w \in W, x \in StringsUpTo({32, 40, 49, 110, 35, 10}, 2)}

\* runs of the digit 1 and '.', and the literals 1.2 and 1.2.3
DotInputs ==
    StringsUpTo({49, 46}, MaxFree + 1)
      \cup { <<49, 46, 50>>, <<49, 46, 50, 46, 51>>, <<49, 46, 50, 46, 51, 59>> }

\* every string of at most MaxFree characters over  1 / + ^ and the numbers
\* 47 and 94, the codes of '/' and '^', between two operands
SlashInputs ==
    StringsUpTo({49, 47, 43, 94}, MaxFree)
      \cup { <<49, 32, 52, 55, 32, 50>>, <<49, 32, 57, 52, 32, 50>> }

Inputs ==
    ExprInputs \cup ExampleInputs \cup CallInputs \cup GoodCallInputs
      \cup ProtoInputs \cup FreeInputs \cup WordInputs \cup DotInputs
      \cup SlashInputs

(***************************************************************************)
(* The read loop (toy.cpp): main primes the first token, MainLoop handles  *)
(* one top-level unit per iteration.                                       *)
(***************************************************************************)
\* the lexer/parser state held in the variables
Now ==
    [LastChar |-> LastChar, rest |-> rest, IdentifierStr |-> IdentifierStr,
     NumVal |-> NumVal, CurTok |-> CurTok, err |-> <<>>, thrown |-> FALSE]

\* write a lexer/parser state back; an exception that left GetTok ends the
\* process (nothing in main catches it)
Store(s, next) ==
    /\ LastChar' = s.LastChar
    /\ rest' = s.rest
    /\ IdentifierStr' = s.IdentifierStr
    /\ NumVal' = s.NumVal
    /\ CurTok' = s.CurTok
    /\ errs' = s.err
    /\ pc' = IF s.thrown THEN "aborted" ELSE next

\* Handle* without the token skipped for error recovery
Handle_noSkip(r) == r.s

\* if (Parse*()) { print } else { getNextToken(); }
Handle(r) == IF r.v # Null THEN r.s ELSE getNextToken(r.s)

Main ==
    /\ pc = "main"
    /\ \E s \in {getNextToken(Now)} : Store(s, "loop")
    /\ UNCHANGED <<input, nunits, unit, parsed, node, TheModule, NamedValues,
                   ret, diags, out, gpc>>

SkipSemicolon ==
    /\ pc = "loop"
    /\ CurTok.value = 59
    \* getNextToken writes no LogError line: errs stays what the handler wrote
    /\ \E s \in {getNextToken(Now)} : Store([s EXCEPT !.err = errs], "loop")
    /\ UNCHANGED <<input, nunits, unit, parsed, node, TheModule, NamedValues,
                   ret, diags, out, gpc>>

MainLoopReturn ==
    /\ pc = "loop"
    /\ CurTok.value # 59
    /\ CurTok.type = "tok_eof"
    /\ pc' = "returned"
    /\ UNCHANGED <<input, rest, LastChar, IdentifierStr, NumVal, CurTok, nunits,
                   unit, parsed, errs, node, TheModule, NamedValues, ret, diags,
                   out, gpc>>

HandleUnit(u, r) ==
    \E s \in {Handle(r)} :
        /\ Store(s, "loop")
        /\ nunits' = nunits + 1
        /\ unit' = u
        /\ parsed' = IF s.thrown THEN Null ELSE r.v
        /\ UNCHANGED <<input, node, TheModule, NamedValues, ret, diags, out, gpc>>

HandleDefinition ==
    /\ pc = "loop"
    /\ CurTok.value # 59
    /\ CurTok.type = "tok_def"
    /\ \E r \in {ParseDefinition(Now)} : HandleUnit("def", r)

HandleExtern ==
    /\ pc = "loop"
    /\ CurTok.value # 59
    /\ CurTok.type = "tok_extern"
    /\ \E r \in {ParseExtern(Now)} : HandleUnit("extern", r)

HandleTopLevelExpression ==
    /\ pc = "loop"
    /\ CurTok.value # 59
    /\ CurTok.type \notin {"tok_eof", "tok_def", "tok_extern"}
    /\ \E r \in {ParseTopLevelExpr(Now)} : HandleUnit("expr", r)

NoNode == [kind |-> "none"]

Init ==
    /\ input \in Inputs
    /\ rest = input
    /\ LastChar = 32
    /\ IdentifierStr = <<>>
    /\ NumVal = Double(0, <<>>)
    /\ CurTok = TokenDefault
    /\ pc = "main"
    /\ nunits = 0
    /\ unit = "none"
    /\ parsed = Null
    /\ errs = <<>>
    /\ node = NoNode
    /\ TheModule = <<>>
    /\ NamedValues = <<>>
    /\ ret = Null
    /\ diags = <<>>
    /\ out = <<>>
    /\ gpc = "run"

Next ==
    \/ Main
    \/ SkipSemicolon
    \/ MainLoopReturn
    \/ HandleDefinition
    \/ HandleExtern
    \/ HandleTopLevelExpression

Spec == Init /\ [][Next]_vars

\* The inputs of the runs followed to their end: the expressions, the well
\* formed calls, the free strings, the words around the keywords, the runs
\* of digits and dots and the strings with '/'.
LiveInputs ==
    ExprInputs \cup ExampleInputs \cup GoodCallInputs \cup FreeInputs
      \cup WordInputs \cup DotInputs \cup SlashInputs

\* Init with the input drawn from LiveInputs
InitLive ==
    /\ input \in LiveInputs
    /\ rest = input
    /\ LastChar = 32
    /\ IdentifierStr = <<>>
    /\ NumVal = Double(0, <<>>)
    /\ CurTok = TokenDefault
    /\ pc = "main"
    /\ nunits = 0
    /\ unit = "none"
    /\ parsed = Null
    /\ errs = <<>>
    /\ node = NoNode
    /\ TheModule = <<>>
    /\ NamedValues = <<>>
    /\ ret = Null
    /\ diags = <<>>
    /\ out = <<>>
    /\ gpc = "run"

\* the process runs on: main and MainLoop take their next step as long as
\* there is one
SpecLive == InitLive /\ [][Next]_vars /\ WF_vars(Next)

(***************************************************************************)
(* The backend as CodeGenerator uses it.  A function of the module is      *)
(*   [name, args, blocks]: its unique name, its argument names and its     *)
(* basic blocks, each the sequence of the instructions inserted into it.   *)
(* A Value is a constant, an argument or an instruction; Null is nullptr.  *)
(* A lowering state g is [M, NV, ip, diags]: the module, the symbol table, *)
(* the builder's insertion function and the diagnostics written.           *)
(***************************************************************************)
ConstantFP(d) == [k |-> "const", val |-> d]
Argument(fn, i) == [k |-> "arg", fn |-> fn, idx |-> i]
Instruction(opcode, ops, name) ==
    [k |-> "inst", opcode |-> opcode, ops |-> ops, name |-> name]
FunctionValue(fn) == [k |-> "function", name |-> fn]

RECURSIVE Digits(_)
\* the decimal digits of a number, as the backend appends them to a name
Digits(n) == IF n < 10 THEN <<48 + n>> ELSE Digits(n \div 10) \o <<48 + (n % 10)>>

\* TheModule->getFunction(Name): the index of the function so named, or 0.
\* A function without a name is in no symbol table and is never found.
getFunction(M, Name) ==
    IF Name # <<>> /\ \E i \in 1..Len(M) : M[i].name = Name
    THEN CHOOSE i \in 1..Len(M) : M[i].name = Name
    ELSE 0

\* The backend keeps names unique: a name already taken gets the first free
\* numeric suffix (after `sep`: "." for a function, nothing for an argument).
UniqueName(taken, Name, sep) ==
    IF Name = <<>> \/ Name \notin taken THEN Name
    ELSE LET k == CHOOSE n \in 1..(Cardinality(taken) + 1) :
                      /\ Name \o sep \o Digits(n) \notin taken
                      /\ \A m \in 1..(n - 1) : Name \o sep \o Digits(m) \in taken
         IN  Name \o sep \o Digits(k)

RECURSIVE SetArgNames(_, _)
\* for (auto &Arg : F->args()) Arg.setName(a->getArgNameAt(idx++));
SetArgNames(named, Names) ==
    IF Names = <<>> THEN named
    ELSE SetArgNames(
            Append(named,
                   UniqueName({named[i] : i \in 1..Len(named)}, Head(Names), <<>>)),
            Tail(Names))

\* Builder->Create...: the instruction is appended at the insertion point.
Emit(g, inst) ==
    LET i == getFunction(g.M, g.ip) IN
    [v |-> inst,
     g |-> [g EXCEPT !.M[i].blocks[1] = Append(@, inst)]]

\* LogErrorV(Str): LogError(Str); return nullptr;
LogErrorV(g, Str, arg) ==
    [v |-> Null,
     g |-> [g EXCEPT !.diags = Append(@, [msg |-> Str, arg |-> arg])]]

\* NamedValues[Name]: std::map::operator[] adds a null entry for a new key.
MapIndex(NV, Name) ==
    IF Name \in DOMAIN NV THEN NV
    ELSE [n \in (DOMAIN NV) \cup {Name} |-> IF n = Name THEN Null ELSE NV[n]]

(***************************************************************************)
(* Lowering of expressions (codegen.cpp): [v, g].                          *)
(***************************************************************************)
RECURSIVE ExprCodeGen(_, _)
RECURSIVE CallArgsCodeGen(_, _, _, _)

NumberExprCodeGen(a, g) == [v |-> ConstantFP(a.Val), g |-> g]

VariableExprCodeGen(a, g) ==
    LET NV == MapIndex(g.NV, a.Name)
        V == NV[a.Name]
        g1 == [g EXCEPT !.NV = NV]
    IN  IF V = Null
        THEN [v |-> V, g |-> LogErrorV(g1, "Unknown variable name : ", a.Name).g]
        ELSE [v |-> V, g |-> g1]

BinaryExprCodeGen(a, g) ==
    LET L == ExprCodeGen(a.LHS, g)
        R == ExprCodeGen(a.RHS, L.g)
    IN  IF L.v = Null \/ R.v = Null THEN [v |-> Null, g |-> R.g]
        ELSE CASE a.Op = 43 ->
                    Emit(R.g, Instruction("fadd", <<L.v, R.v>>, "addtmp"))
               [] a.Op = 45 ->
                    Emit(R.g, Instruction("fsub", <<L.v, R.v>>, "subtmp"))
               [] a.Op = 42 ->
                    Emit(R.g, Instruction("fmul", <<L.v, R.v>>, "multmp"))
               [] a.Op = 47 ->
                    Emit(R.g, Instruction("fdiv", <<L.v, R.v>>, "divtmp"))
               [] a.Op = 60 ->
                    LET c == Emit(R.g, Instruction("fcmp ult", <<L.v, R.v>>, "cmptmp"))
                    IN  Emit(c.g, Instruction("uitofp", <<c.v>>, "booltmp"))
               [] OTHER ->
                    LogErrorV(R.g, ": invalid binary operator.", <<a.Op>>)

RECURSIVE CallArgsCodeGen_noStop(_, _, _, _)
\* the argument loop lowering every argument, a failed one included
CallArgsCodeGen_noStop(a, i, ArgsV, g) ==
    IF i > Len(a.Args)
    THEN [ok |-> \A j \in 1..Len(ArgsV) : ArgsV[j] # Null, ArgsV |-> ArgsV, g |-> g]
    ELSE LET r == ExprCodeGen(a.Args[i], g) IN
         CallArgsCodeGen_noStop(a, i + 1, Append(ArgsV, r.v), r.g)

\* the for loop of CallsExprCodeGen from argument i on: [ok, ArgsV, g]
CallArgsCodeGen(a, i, ArgsV, g) ==
    IF i > Len(a.Args) THEN [ok |-> TRUE, ArgsV |-> ArgsV, g |-> g]
    ELSE LET r == ExprCodeGen(a.Args[i], g) IN
         IF r.v = Null THEN [ok |-> FALSE, ArgsV |-> Append(ArgsV, r.v), g |-> r.g]
         ELSE CallArgsCodeGen(a, i + 1, Append(ArgsV, r.v), r.g)

\* CallsExprCodeGen calling whatever the argument count
CallsExprCodeGen_noArityCheck(a, g) ==
    LET CalleeF == getFunction(g.M, a.Callee) IN
    IF CalleeF = 0
    THEN LogErrorV(g, ": unknown function referenced", a.Callee)
    ELSE LET r == CallArgsCodeGen(a, 1, <<>>, g) IN
         IF ~r.ok THEN [v |-> Null, g |-> r.g]
         ELSE Emit(r.g, Instruction("call", <<FunctionValue(a.Callee)>> \o r.ArgsV,
                                    "calltmp"))

CallsExprCodeGen(a, g) ==
    LET CalleeF == getFunction(g.M, a.Callee) IN
    IF CalleeF = 0
    THEN LogErrorV(g, ": unknown function referenced", a.Callee)
    ELSE IF Len(g.M[CalleeF].args) # Len(a.Args)
    THEN LogErrorV(g, ": incorrect # arguments passeed", a.Callee)
    ELSE LET r == CallArgsCodeGen(a, 1, <<>>, g) IN
         IF ~r.ok THEN [v |-> Null, g |-> r.g]
         ELSE Emit(r.g, Instruction("call", <<FunctionValue(a.Callee)>> \o r.ArgsV,
                                    "calltmp"))

\* ExprAST::codegen: the virtual dispatch of ast.cpp
ExprCodeGen(a, g) ==
    CASE a.kind = "Number" -> NumberExprCodeGen(a, g)
      [] a.kind = "Variable" -> VariableExprCodeGen(a, g)
      [] a.kind = "Binary" -> BinaryExprCodeGen(a, g)
      [] a.kind = "Call" -> CallsExprCodeGen(a, g)

(***************************************************************************)
(* Lowering of prototypes and functions: [v, g, a, crashed], a being the   *)
(* node after the call.                                                    *)
(***************************************************************************)
\* Function::Create(FT, ExternalLinkage, a->getName(), *TheModule) and the
\* naming of its arguments
PrototypeCodeGen(a, g) ==
    LET fn == UniqueName({g.M[i].name : i \in 1..Len(g.M)}, a.Name, <<46>>)
        F == [name |-> fn, args |-> SetArgNames(<<>>, a.Args), blocks |-> <<>>]
    IN  [v |-> FunctionValue(fn), g |-> [g EXCEPT !.M = Append(@, F)]]

\* FunctionAST::getProto (ast.cpp): return std::move(Proto);
getProto(a) == [v |-> a.Proto, a |-> [a EXCEPT !.Proto = Null]]

RECURSIVE BindArgs(_, _, _)
\* for (auto &Arg : TheFunction->args()) NamedValues[Arg.getName()] = &Arg;
BindArgs(NV, F, i) ==
    IF i > Len(F.args) THEN NV
    ELSE BindArgs([n \in (DOMAIN NV) \cup {F.args[i]} |->
                      IF n = F.args[i] THEN Argument(F.name, i) ELSE NV[n]],
                  F, i + 1)

\* TheFunction->eraseFromParent()
eraseFromParent(M, i) == SubSeq(M, 1, i - 1) \o SubSeq(M, i + 1, Len(M))

\* FunctionCodeGen defining over a function that already has a body
DefineFunction_noRedefinitionCheck(a, g, i) ==
    LET F == [g.M[i] EXCEPT !.blocks = <<<<>>>>]
        g1 == [g EXCEPT !.M[i] = F, !.ip = F.name, !.NV = BindArgs(<<>>, F, 1)]
        RetVal == ExprCodeGen(a.Body, g1)
    IN  IF RetVal.v # Null
        THEN [v |-> FunctionValue(F.name),
              g |-> Emit(RetVal.g, Instruction("ret", <<RetVal.v>>, "")).g,
              a |-> a, crashed |-> FALSE]
        ELSE [v |-> Null,
              g |-> [RetVal.g EXCEPT
                        !.M = eraseFromParent(@, getFunction(@, F.name))],
              a |-> a, crashed |-> FALSE]

\* what follows `if (!TheFunction) return nullptr;` with TheFunction = M[i]
DefineFunction(a, g, i) ==
    IF g.M[i].blocks # <<>>
    THEN LET e == LogErrorV(g, "Function cannot be redefined.", <<>>) IN
         [v |-> Null, g |-> e.g, a |-> a, crashed |-> FALSE]
    ELSE
        LET F == [g.M[i] EXCEPT !.blocks = <<<<>>>>]
            g1 == [g EXCEPT !.M[i] = F, !.ip = F.name,
                            !.NV = BindArgs(<<>>, F, 1)]
            RetVal == ExprCodeGen(a.Body, g1)
        IN  IF RetVal.v # Null
            THEN [v |-> FunctionValue(F.name),
                  g |-> Emit(RetVal.g, Instruction("ret", <<RetVal.v>>, "")).g,
                  a |-> a, crashed |-> FALSE]
            ELSE [v |-> Null,
                  g |-> [RetVal.g EXCEPT
                            !.M = eraseFromParent(@, getFunction(@, F.name))],
                  a |-> a, crashed |-> FALSE]

\* A call through a null pointer is undefined: `ub` is the outcome the
\* build produces, the process dying or the call returning nullptr.
UBOutcomes == {"crash", "nullptr"}
Undefined(a, g, ub) ==
    [v |-> Null, g |-> g, a |-> a, crashed |-> (ub = "crash")]

\* FunctionCodeGen declaring a new function even when one is declared
FunctionCodeGen_alwaysDeclare(a, g, ub) ==
    LET p1 == getProto(a) IN
    IF p1.v = Null THEN Undefined(p1.a, g, ub)
    ELSE LET F == PrototypeCodeGen(p1.v, g) IN
         DefineFunction(p1.a, F.g, Len(F.g.M))

FunctionCodeGen(a, g, ub) ==
    LET p1 == getProto(a) IN
    \* a->getProto()->getName() on a node whose Proto was moved away
    IF p1.v = Null THEN Undefined(p1.a, g, ub)
    ELSE
        LET TheFunction == getFunction(g.M, p1.v.Name)
            p2 == getProto(p1.a)
        IN  IF TheFunction = 0
            \* the second a->getProto() returns the moved-from, null pointer
            THEN IF p2.v = Null THEN Undefined(p2.a, g, ub)
                 ELSE LET F == PrototypeCodeGen(p2.v, g) IN
                      DefineFunction(p2.a, F.g, Len(F.g.M))
            ELSE DefineFunction(p1.a, g, TheFunction)

\* ASTNode::codegen of a top-level node
NodeCodeGen(a, g, ub) ==
    IF a.kind = "Prototype"
    THEN LET F == PrototypeCodeGen(a, g) IN
         [v |-> F.v, g |-> F.g, a |-> a, crashed |-> FALSE]
    ELSE FunctionCodeGen(a, g, ub)

\* PrototypeAST::print and FunctionAST::print; the latter reads through
\* Proto, which is undefined once Proto was moved away
NodePrint(a, ub) ==
    IF a.kind = "Prototype"
    THEN [out |-> <<"Function prototype for ", a.Name>>, crashed |-> FALSE]
    ELSE IF a.Proto # Null
    THEN [out |-> <<"Function definition for", a.Proto.Name>>, crashed |-> FALSE]
    ELSE [out |-> <<"Function definition for", <<>>>>, crashed |-> (ub = "crash")]

(***************************************************************************)
(* The clients of the lowering: a caller holding the generator hands it    *)
(* the top-level nodes a parse produced, one codegen call per node, and    *)
(* drops each node after the call.                                         *)
(***************************************************************************)
G == <<103>>
H == <<104>>
X == <<120>>
Y == <<121>>
Var(n) == VariableExprAST(n)
Const(k) == NumberExprAST(Double(k, <<>>))

\* the parameter lists (x) and (x y)
ParamLists == {<<X>>, <<X, Y>>}
ProtoNodes == {PrototypeAST(n, ps) : n \in {G, H}, ps \in ParamLists}

Bodies ==
    { Const(1), Var(X), Var(Y),
      CallsExprAST(H, <<Const(1)>>),
      CallsExprAST(H, <<Const(1), Var(X)>>),
      CallsExprAST(H, <<Const(1), Const(2)>>),
      CallsExprAST(H, <<Const(1), Const(2), Const(3)>>) }
FunctionNodes ==
    {FunctionAST(p, b) : p \in ProtoNodes, b \in Bodies}
      \cup {FunctionAST(PrototypeAST(<<>>, <<>>), Const(1))}

\* node->codegen(c) on the generator as it stands: [v, g, a, crashed]
Lowered(a, ub) ==
    NodeCodeGen(a, [M |-> TheModule, NV |-> NamedValues,
                    ip |-> <<>>, diags |-> <<>>], ub)

\* PrototypeAST::codegen(c) on the prototype of an extern
LowerPrototype(p) ==
    /\ gpc = "run"
    /\ \E r \in {Lowered(p, "crash")} :
           /\ Len(r.g.M) <= MaxFuncs
           /\ TheModule' = r.g.M
           /\ NamedValues' = r.g.NV
           /\ ret' = r.v
           /\ diags' = r.g.diags
    /\ UNCHANGED <<node, out, gpc>>
    /\ UNCHANGED lexvars

\* FunctionAST::codegen(c) on the node of a definition or of a top-level
\* expression
LowerFunction(f) ==
    /\ gpc = "run"
    /\ \E r \in {Lowered(f, ub) : ub \in UBOutcomes} :
           /\ Len(r.g.M) <= MaxFuncs
           /\ TheModule' = r.g.M
           /\ NamedValues' = r.g.NV
           /\ ret' = r.v
           /\ diags' = r.g.diags
           /\ gpc' = IF r.crashed THEN "crashed" ELSE "run"
    /\ UNCHANGED <<node, out>>
    /\ UNCHANGED lexvars

InitGen ==
    /\ input = <<>>
    /\ rest = <<>>
    /\ LastChar = 32
    /\ IdentifierStr = <<>>
    /\ NumVal = Double(0, <<>>)
    /\ CurTok = TokenDefault
    /\ pc = "main"
    /\ nunits = 0
    /\ unit = "none"
    /\ parsed = Null
    /\ errs = <<>>
    /\ node = NoNode
    /\ TheModule = <<>>
    /\ NamedValues = <<>>
    /\ ret = Null
    /\ diags = <<>>
    /\ out = <<>>
    /\ gpc = "run"

NextGen ==
    \/ \E p \in ProtoNodes : LowerPrototype(p)
    \/ \E f \in FunctionNodes : LowerFunction(f)

SpecGen == InitGen /\ [][NextGen]_vars

(***************************************************************************)
(* A second client, lowering definitions whose bodies are binary           *)
(* operations and calls over variables, some of them unknown, and whose    *)
(* prototypes repeat a parameter name.                                     *)
(***************************************************************************)
K == <<107>>
V == <<118>>
W == <<119>>
Z == <<122>>

\* extern g(x), extern g(x x), extern h(y z) and the definitions over them
ExprProtos ==
    { PrototypeAST(G, <<X>>), PrototypeAST(G, <<X, X>>), PrototypeAST(H, <<Y, Z>>) }

ExprBodies ==
    { Var(X),
      BinaryExprAST(43, Var(W), Var(V)),
      BinaryExprAST(43, Var(X), Var(V)),
      BinaryExprAST(43, Var(X), Const(2)),
      CallsExprAST(K, <<Var(W)>>),
      CallsExprAST(H, <<Var(W), Var(V)>>),
      CallsExprAST(H, <<Const(1), Var(X)>>) }

ExprFunctions == {FunctionAST(p, b) : p \in ExprProtos, b \in ExprBodies}

NextExpr ==
    \/ \E p \in ExprProtos : LowerPrototype(p)
    \/ \E f \in ExprFunctions : LowerFunction(f)

SpecExpr == InitGen /\ [][NextExpr]_vars

(***************************************************************************)
(* One AST node and the operations of its interface (ast.h): the node is   *)
(* fresh from its constructor, the module holds what some externs          *)
(* declared, and the holder describes the node, reads its prototype and    *)
(* lowers it, in any order.                                                *)
(***************************************************************************)
Declare(M, p) ==
    PrototypeCodeGen(p, [M |-> M, NV |-> <<>>, ip |-> <<>>, diags |-> <<>>]).g.M
DeclaredModules ==
    {<<>>} \cup {Declare(<<>>, p) : p \in ProtoNodes}
      \cup {Declare(Declare(<<>>, p), q) : p, q \in ProtoNodes}

\* node->print()
print ==
    /\ gpc = "run"
    /\ \E ub \in UBOutcomes :
          LET r == NodePrint(node, ub) IN
          /\ out' = r.out
          /\ gpc' = IF r.crashed THEN "crashed" ELSE "run"
    /\ UNCHANGED <<node, TheModule, NamedValues, ret, diags>>
    /\ UNCHANGED lexvars

\* node->getProto()
GetProto ==
    /\ gpc = "run"
    /\ node.kind = "Function"
    /\ node' = getProto(node).a
    /\ ret' = getProto(node).v
    /\ UNCHANGED <<TheModule, NamedValues, diags, out, gpc>>
    /\ UNCHANGED lexvars

\* node->codegen(&generator)
Codegen ==
    /\ gpc = "run"
    /\ \E r \in {Lowered(node, ub) : ub \in UBOutcomes} :
           /\ Len(r.g.M) <= MaxFuncs + 1
           /\ node' = r.a
           /\ TheModule' = r.g.M
           /\ NamedValues' = r.g.NV
           /\ ret' = r.v
           /\ diags' = r.g.diags
           /\ gpc' = IF r.crashed THEN "crashed" ELSE "run"
    /\ UNCHANGED out
    /\ UNCHANGED lexvars

InitNode ==
    /\ input = <<>>
    /\ rest = <<>>
    /\ LastChar = 32
    /\ IdentifierStr = <<>>
    /\ NumVal = Double(0, <<>>)
    /\ CurTok = TokenDefault
    /\ pc = "main"
    /\ nunits = 0
    /\ unit = "none"
    /\ parsed = Null
    /\ errs = <<>>
    /\ node \in ProtoNodes \cup FunctionNodes
    /\ TheModule \in {M \in DeclaredModules : Len(M) <= MaxFuncs}
    /\ NamedValues = <<>>
    /\ ret = Null
    /\ diags = <<>>
    /\ out = <<>>
    /\ gpc = "run"

NextNode ==
    \/ print
    \/ GetProto
    \/ Codegen

SpecNode == InitNode /\ [][NextNode]_vars

(***************************************************************************)
(* Vocabulary of the properties.                                           *)
(***************************************************************************)
Num(k) == NumberExprAST(Double(k, <<>>))
Bin(op, l, r) == [kind |-> "Binary", Op |-> op, LHS |-> l, RHS |-> r]
Anon(body) == FunctionAST(PrototypeAST(<<>>, <<>>), body)

\* the documented binding powers
Power(op) ==
    CASE op = 60 -> 10 [] op = 43 -> 20 [] op = 45 -> 20 [] op = 42 -> 40
      [] OTHER -> -1

RECURSIVE Unparse(_)
RECURSIVE UnparseArgs(_)
\* the text of an expression without blanks or parentheses around operands
Unparse(e) ==
    CASE e.kind = "Number" -> Digits(e.Val.whole)
      [] e.kind = "Variable" -> e.Name
      [] e.kind = "Binary" -> Unparse(e.LHS) \o <<e.Op>> \o Unparse(e.RHS)
      [] e.kind = "Call" -> e.Callee \o <<40>> \o UnparseArgs(e.Args) \o <<41>>
      [] OTHER -> <<>>
UnparseArgs(args) ==
    IF args = <<>> THEN <<>>
    ELSE IF Len(args) = 1 THEN Unparse(args[1])
    ELSE Unparse(args[1]) \o <<44>> \o UnparseArgs(Tail(args))

RECURSIVE NoLooserBelow(_)
\* no operand of a BinaryOp is a BinaryOp that binds looser than it
NoLooserBelow(e) ==
    IF e.kind # "Binary" THEN TRUE
    ELSE /\ e.LHS.kind = "Binary" => Power(e.LHS.Op) >= Power(e.Op)
         /\ e.RHS.kind = "Binary" => Power(e.RHS.Op) >= Power(e.Op)
         /\ NoLooserBelow(e.LHS)
         /\ NoLooserBelow(e.RHS)

RECURSIVE NoEqualOnRight(_)
\* no right operand of a BinaryOp is a BinaryOp of the same binding power
NoEqualOnRight(e) ==
    IF e.kind # "Binary" THEN TRUE
    ELSE /\ e.RHS.kind = "Binary" => Power(e.RHS.Op) # Power(e.Op)
         /\ NoEqualOnRight(e.LHS)
         /\ NoEqualOnRight(e.RHS)

\* the first unit of the input has been handled, and no other yet
FirstUnit == nunits = 1 /\ pc # "aborted"
Parsed(body) == parsed = Anon(body)
Is(text) == input = text \/ input = Append(text, 59)

(***************************************************************************)
(* C1 - Precedence.  For every input made of number primaries joined by    *)
(* operators of the binding-power table, the first unit parses to a tree   *)
(* whose in-order reading is the input and in which no operand of an       *)
(* operator is an operator that binds looser; in particular 1+2*3 groups   *)
(* as 1+[2*3], 1*2+3 as [1*2]+3 and 1<2+3 as 1<[2+3].                      *)
(***************************************************************************)
C1_Precedence ==
    FirstUnit =>
      /\ input \in ExprInputs =>
            /\ parsed.kind = "Function"
            /\ Unparse(parsed.Body) = input
            /\ NoLooserBelow(parsed.Body)
      /\ Is(<<49, 43, 50, 42, 51>>) =>
            Parsed(Bin(43, Num(1), Bin(42, Num(2), Num(3))))
      /\ Is(<<49, 42, 50, 43, 51>>) =>
            Parsed(Bin(43, Bin(42, Num(1), Num(2)), Num(3)))
      /\ Is(<<49, 60, 50, 43, 51>>) =>
            Parsed(Bin(60, Num(1), Bin(43, Num(2), Num(3))))

C1_Witness ==
    /\ FirstUnit
    /\ input = <<49, 43, 50, 42, 51>>
    /\ Parsed(Bin(43, Num(1), Bin(42, Num(2), Num(3))))

(***************************************************************************)
(* C2 - Left-associativity.  In the tree parsed from a chain of number     *)
(* primaries and table operators, the right operand of an operator is      *)
(* never an operator of the same binding power, so operators of equal      *)
(* power fold to the left: a op1 b op2 c with equal powers groups as       *)
(* [a op1 b] op2 c, and 1-2-3 as [1-2]-3.                                  *)
(***************************************************************************)
C2_LeftAssoc ==
    FirstUnit =>
      /\ input \in ExprInputs =>
            /\ parsed.kind = "Function"
            /\ Unparse(parsed.Body) = input
            /\ NoEqualOnRight(parsed.Body)
      /\ \A a, b, c \in NumLexemes : \A op1, op2 \in {43, 45} :
            input = a \o <<op1>> \o b \o <<op2>> \o c =>
                /\ parsed.kind = "Function"
                /\ parsed.Body.kind = "Binary"
                /\ parsed.Body.Op = op2
                /\ parsed.Body.LHS.kind = "Binary"
                /\ parsed.Body.LHS.Op = op1
                /\ Unparse(parsed.Body.LHS) = a \o <<op1>> \o b
                /\ Unparse(parsed.Body.RHS) = c
      /\ Is(<<49, 45, 50, 45, 51>>) =>
            Parsed(Bin(45, Bin(45, Num(1), Num(2)), Num(3)))

C2_Witness ==
    /\ FirstUnit
    /\ input = <<49, 45, 50, 45, 51>>
    /\ Parsed(Bin(45, Bin(45, Num(1), Num(2)), Num(3)))

(***************************************************************************)
(* C3 - Grouping override.  The input (1+2)*3, lexed by GetTok, parses as  *)
(* its first unit to the product of the sum 1+2 and 3.                     *)
(***************************************************************************)
C3_Grouping ==
    (FirstUnit /\ Is(<<40, 49, 43, 50, 41, 42, 51>>)) =>
        Parsed(Bin(42, Bin(43, Num(1), Num(2)), Num(3)))

(***************************************************************************)
(* C4 - Call arguments.  An identifier followed by '(' and n >= 0          *)
(* comma-separated expressions and ')' parses to a Call whose args are     *)
(* those n expressions in source order (f(1,2,3) gives Call f [1,2,3] and  *)
(* f() gives an empty list), and a token that is neither ',' nor ')' after *)
(* an argument is a syntax error: here, a Number token after a number      *)
(* argument.                                                               *)
(***************************************************************************)
\* the number of arguments written in an input of GoodCallInputs
ArgCount(text) ==
    IF Len(text) = 3 THEN 0
    ELSE 1 + Cardinality({i \in 1..Len(text) : text[i] = 44})

\* "f(" digits blank digit ... : a number argument, then a Number token
NumberAfterArg(text) ==
    /\ Len(text) >= 5
    /\ SubSeq(text, 1, 2) = <<102, 40>>
    /\ \E i \in 3..(Len(text) - 2) :
          /\ \A j \in 3..i : isdigit(text[j])
          /\ text[i + 1] = 32
          /\ isdigit(text[i + 2])

C4_CallArgs ==
    FirstUnit =>
      /\ input \in GoodCallInputs =>
            /\ parsed.kind = "Function"
            /\ parsed.Body.kind = "Call"
            /\ parsed.Body.Callee = <<102>>
            /\ Len(parsed.Body.Args) = ArgCount(input)
            /\ Unparse(parsed.Body) = input
      /\ Is(<<102, 40, 49, 44, 50, 44, 51, 41>>) =>
            Parsed(CallsExprAST(<<102>>, <<Num(1), Num(2), Num(3)>>))
      /\ Is(<<102, 40, 41>>) => Parsed(CallsExprAST(<<102>>, <<>>))
      /\ NumberAfterArg(input) =>
            /\ parsed = Null
            /\ errs = <<"Expected ')' or ',' ">>

(***************************************************************************)
(* Vocabulary of the lowering properties.                                  *)
(***************************************************************************)
\* the function table holds a function named n that has a body
HasBody(M, n) == getFunction(M, n) # 0 /\ M[getFunction(M, n)].blocks # <<>>
\* the function table holds a function named n that is only declared
DeclaredOnly(M, n) == getFunction(M, n) # 0 /\ M[getFunction(M, n)].blocks = <<>>
\* the instructions of a function, block after block
RECURSIVE Flatten(_)
Flatten(blocks) ==
    IF blocks = <<>> THEN <<>> ELSE Head(blocks) \o Flatten(Tail(blocks))
RECURSIVE CallCount(_)
\* the number of call instructions the module holds
CallCount(M) ==
    IF M = <<>> THEN 0
    ELSE Cardinality({i \in 1..Len(Flatten(Head(M).blocks)) :
                         Flatten(Head(M).blocks)[i].opcode = "call"})
           + CallCount(Tail(M))
Redefinition == [msg |-> "Function cannot be redefined.", arg |-> <<>>]
ArityMismatch(n) == [msg |-> ": incorrect # arguments passeed", arg |-> n]

(***************************************************************************)
(* C5 - Redefinition.  In every state the generator reaches, for every     *)
(* name n the function table holds with a body, lowering a FunctionDef     *)
(* named n returns the failure sentinel, writes the diagnostic "Function   *)
(* cannot be redefined." and leaves the function table, and so the first   *)
(* function and its body, as they were.                                    *)
(***************************************************************************)
C5_Redefinition ==
    gpc = "run" =>
        \A f \in FunctionNodes : \A ub \in UBOutcomes :
            HasBody(TheModule, f.Proto.Name) =>
                /\ Lowered(f, ub).v = Null
                /\ Lowered(f, ub).g.diags = <<Redefinition>>
                /\ Lowered(f, ub).g.M = TheModule
                /\ ~Lowered(f, ub).crashed

\* def g has just been lowered over a g that has a body
C5_Witness ==
    /\ HasBody(TheModule, G)
    /\ ret = Null
    /\ diags = <<Redefinition>>

(***************************************************************************)
(* C6 - Declaration reuse.  In every state the generator reaches, lowering *)
(* a FunctionDef whose name the function table holds as a declaration      *)
(* without a body creates no function: when it succeeds, the table has the *)
(* same length, the declared function keeps its name and its arguments and *)
(* now has a body, every other function is untouched, the handle returned  *)
(* is the declared function's and no second function has the name.  With   *)
(* the bodies x and 1 (def g(x) x after extern g(x)) it succeeds.          *)
(***************************************************************************)
C6_DeclarationReuse ==
    gpc = "run" =>
        \A f \in FunctionNodes : \A ub \in UBOutcomes :
            DeclaredOnly(TheModule, f.Proto.Name) =>
                LET i == getFunction(TheModule, f.Proto.Name)
                    r == Lowered(f, ub)
                IN  /\ ~r.crashed
                    /\ f.Body \in {Var(X), Const(1)} => r.v # Null
                    /\ r.v # Null =>
                          /\ r.v = FunctionValue(f.Proto.Name)
                          /\ Len(r.g.M) = Len(TheModule)
                          /\ r.g.M[i].name = f.Proto.Name
                          /\ r.g.M[i].args = TheModule[i].args
                          /\ r.g.M[i].blocks # <<>>
                          /\ \A j \in 1..Len(TheModule) :
                                j # i => r.g.M[j] = TheModule[j]
                          /\ Cardinality({j \in 1..Len(r.g.M) :
                                             r.g.M[j].name = f.Proto.Name}) = 1

\* extern g(x) and then def g(x) x have been lowered
C6_Witness ==
    /\ TheModule = << [name |-> G, args |-> <<X>>,
                       blocks |-> << <<Instruction("ret", <<Argument(G, 1)>>, "")>> >>] >>
    /\ ret = FunctionValue(G)
    /\ diags = <<>>

(***************************************************************************)
(* C7 - Arity.  In every state the generator reaches, lowering a function  *)
(* (over its declaration) whose body is a Call of a function the table     *)
(* holds: when the number of arguments differs from the callee's number of *)
(* parameters the lowering returns the failure sentinel, writes            *)
(* "incorrect # arguments" and the module holds no call instruction more   *)
(* than before; when the numbers are equal (the arguments here all lower)  *)
(* it succeeds and the module holds exactly one call instruction more.     *)
(***************************************************************************)
C7_Arity ==
    gpc = "run" =>
        \A f \in FunctionNodes : \A ub \in UBOutcomes :
            ( /\ f.Body.kind = "Call"
              /\ DeclaredOnly(TheModule, f.Proto.Name)
              /\ getFunction(TheModule, f.Body.Callee) # 0 ) =>
                LET CalleeF == TheModule[getFunction(TheModule, f.Body.Callee)]
                    r == Lowered(f, ub)
                IN  IF Len(CalleeF.args) # Len(f.Body.Args)
                    THEN /\ r.v = Null
                         /\ r.g.diags = <<ArityMismatch(f.Body.Callee)>>
                         /\ CallCount(r.g.M) = CallCount(TheModule)
                    ELSE /\ r.v = FunctionValue(f.Proto.Name)
                         /\ r.g.diags = <<>>
                         /\ CallCount(r.g.M) = CallCount(TheModule) + 1

\* a call of the 2-parameter h with another number of arguments has just
\* been lowered
C7_Witness ==
    /\ getFunction(TheModule, H) # 0
    /\ Len(TheModule[getFunction(TheModule, H)].args) = 2
    /\ ret = Null
    /\ diags = <<ArityMismatch(H)>>

(***************************************************************************)
(* C8 - Idempotent description.  No operation on a node (print, getProto,  *)
(* codegen) changes the node, and a second print of a node writes what the *)
(* first wrote.                                                            *)
(***************************************************************************)
C8_Immutable ==
    [][ /\ node' = node
        /\ (print /\ out # <<>>) => (out' = out /\ gpc' = "run") ]_vars

(***************************************************************************)
(* C9 - parsePrototype accepts exactly an Identifier, '(', zero or more    *)
(* Identifiers and ')': after the extern keyword, a token sequence of that *)
(* form yields the Prototype with those parameter names in order, and any  *)
(* other token sequence yields the failure sentinel and a syntax error.    *)
(***************************************************************************)
RECURSIVE Words(_, _)
\* the blank-separated words of a text (cur is the word being read)
Words(text, cur) ==
    IF text = <<>> THEN (IF cur = <<>> THEN <<>> ELSE <<cur>>)
    ELSE IF Head(text) = 32
         THEN (IF cur = <<>> THEN <<>> ELSE <<cur>>) \o Words(Tail(text), <<>>)
         ELSE Words(Tail(text), Append(cur, Head(text)))

\* a word that is an Identifier token: letters and digits after a letter,
\* and not a keyword
IsIdentWord(w) ==
    /\ w # <<>>
    /\ isalpha(w[1])
    /\ \A i \in 1..Len(w) : isalnum(w[i])
    /\ w # <<100, 101, 102>>
    /\ w # <<101, 120, 116, 101, 114, 110>>

\* ws = name ( ident* ) ... : the index of the closing word, or 0
ProtoEnd(ws) ==
    IF /\ Len(ws) >= 3
       /\ IsIdentWord(ws[1])
       /\ ws[2] = <<40>>
       /\ \E k \in 3..Len(ws) :
             ws[k] = <<41>> /\ \A i \in 3..(k - 1) : IsIdentWord(ws[i])
    THEN CHOOSE k \in 3..Len(ws) :
             ws[k] = <<41>> /\ \A i \in 3..(k - 1) : IsIdentWord(ws[i])
    ELSE 0

IsExternInput ==
    /\ input \in ProtoInputs
    /\ Len(input) >= 6
    /\ SubSeq(input, 1, 6) = <<101, 120, 116, 101, 114, 110>>

C9_Prototype ==
    (FirstUnit /\ IsExternInput) =>
        LET ws == Tail(Words(input, <<>>))
            k == ProtoEnd(ws)
        IN  IF k > 0
            THEN parsed = PrototypeAST(ws[1], SubSeq(ws, 3, k - 1))
            ELSE parsed = Null /\ errs # <<>>

(***************************************************************************)
(* C10 - Identifier/keyword recognition.  When the first character of the  *)
(* input that is not white space is a letter, the first pull consumes the  *)
(* maximal run of alphanumeric characters starting there and returns       *)
(* DefKeyword when the run is "def", ExternKeyword when it is "extern" and *)
(* Identifier otherwise; IdentifierStr is the run, and the character after *)
(* the run (or EOF) is the pushback character.                             *)
(***************************************************************************)
\* index of the first character that is not white space (Len + 1 when none)
FirstInk(text) ==
    CHOOSE i \in 1..(Len(text) + 1) :
        /\ \A j \in 1..(i - 1) : isspace(text[j])
        /\ i <= Len(text) => ~isspace(text[i])

\* index of the last character of the maximal alphanumeric run from i
RunEnd(text, i) ==
    CHOOSE j \in i..Len(text) :
        /\ \A k \in i..j : isalnum(text[k])
        /\ j < Len(text) => ~isalnum(text[j + 1])

StartsWithLetter ==
    FirstInk(input) <= Len(input) /\ isalpha(input[FirstInk(input)])

C10_Identifier ==
    (pc = "loop" /\ nunits = 0 /\ StartsWithLetter) =>
        LET i == FirstInk(input)
            j == RunEnd(input, i)
            run == SubSeq(input, i, j)
        IN  /\ CurTok.type =
                  (IF run = <<100, 101, 102>> THEN "tok_def"
                   ELSE IF run = <<101, 120, 116, 101, 114, 110>>
                        THEN "tok_extern"
                   ELSE "tok_identifier")
            /\ IdentifierStr = run
            /\ LastChar = (IF j < Len(input) THEN input[j + 1] ELSE EOF)
            /\ rest = SubSeq(input, j + 2, Len(input))

\* "def1 " has been pulled as the Identifier def1, the blank pushed back
C10_Witness ==
    /\ pc = "loop"
    /\ nunits = 0
    /\ input = <<100, 101, 102, 49, 32>>
    /\ CurTok.type = "tok_identifier"
    /\ IdentifierStr = <<100, 101, 102, 49>>
    /\ LastChar = 32

(***************************************************************************)
(* C11 - Malformed numeric literal.  When the first character of the input *)
(* that is not white space is a digit or '.', and the maximal run of       *)
(* digits and '.' starting there is malformed (it holds two or more '.',   *)
(* as 1.2.3 does, or no digit), the first pull ends the process and no     *)
(* Number token is returned.                                               *)
(***************************************************************************)
\* index of the last character of the maximal run of digits and '.' from i
NumRunEnd(text, i) ==
    CHOOSE j \in i..Len(text) :
        /\ \A k \in i..j : isdigit(text[k]) \/ text[k] = 46
        /\ j < Len(text) => ~(isdigit(text[j + 1]) \/ text[j + 1] = 46)

Malformed(run) ==
    \/ Cardinality({k \in 1..Len(run) : run[k] = 46}) >= 2
    \/ \A k \in 1..Len(run) : ~isdigit(run[k])

StartsWithNumber ==
    /\ FirstInk(input) <= Len(input)
    /\ isdigit(input[FirstInk(input)]) \/ input[FirstInk(input)] = 46

C11_MalformedNumber ==
    ( /\ pc \in {"loop", "aborted"}
      /\ nunits = 0
      /\ StartsWithNumber
      /\ Malformed(SubSeq(input, FirstInk(input),
                          NumRunEnd(input, FirstInk(input)))) ) =>
        /\ pc = "aborted"
        /\ CurTok.type # "tok_number"

(***************************************************************************)
(* C12 - Unit-grained recovery.  The read loop returns only with the End   *)
(* token current; a unit whose parse returned the failure sentinel wrote a *)
(* diagnostic and left the loop running; every unit handled has advanced   *)
(* the input by at least one token; a unit that fails on its first token   *)
(* (an operator character where an expression must start) leaves the       *)
(* lexer exactly one token past it; and the units after a failed one are   *)
(* handled: the input "( 1" gives a failed unit and then the expression 1. *)
(***************************************************************************)
\* the lexer/parser state before main primes the first token
Start(text) ==
    [LastChar |-> 32, rest |-> text, IdentifierStr |-> <<>>,
     NumVal |-> Double(0, <<>>), CurTok |-> TokenDefault, err |-> <<>>,
     thrown |-> FALSE]

\* the first token of the input is an Operator token other than ';'
StartsWithOp ==
    /\ FirstInk(input) <= Len(input)
    /\ ~isalpha(input[FirstInk(input)])
    /\ ~isdigit(input[FirstInk(input)])
    /\ input[FirstInk(input)] \notin {46, 35, 59}

C12_Recovery ==
    /\ pc = "returned" => CurTok.type = "tok_eof"
    /\ (unit # "none" /\ parsed = Null /\ pc # "aborted") =>
          /\ pc \in {"loop", "returned"}
          /\ errs # <<>>
    /\ pc # "aborted" => nunits <= Len(input) - Len(rest)
    /\ (FirstUnit /\ StartsWithOp) =>
          LET s2 == getNextToken(getNextToken(Start(input))) IN
          /\ parsed = Null
          /\ errs = <<"unknown token when expecting an expression">>
          /\ CurTok = s2.CurTok
          /\ rest = s2.rest
          /\ LastChar = s2.LastChar
    /\ (input = <<40, 32, 49>> /\ nunits = 2) =>
          /\ unit = "expr"
          /\ Parsed(Num(1))
          /\ errs = <<>>

\* "( 1": the unit at '(' failed, and the next unit parsed the expression 1
C12_Witness ==
    /\ input = <<40, 32, 49>>
    /\ nunits = 2
    /\ Parsed(Num(1))
    /\ CurTok.type = "tok_eof"
    /\ pc = "loop"

(***************************************************************************)
(* C13 - Token-kind discipline.  A Number token is never taken for an      *)
(* operator or for punctuation: the first unit of "1 43 2" is the number 1 *)
(* alone, the Number 43 staying the current token, and the first unit of   *)
(* "x 40" is the VariableRef x, the Number 40 staying the current token.   *)
(***************************************************************************)
C13_TokenKind ==
    /\ (FirstUnit /\ input = <<49, 32, 52, 51, 32, 50>>) =>
          /\ Parsed(Num(1))
          /\ CurTok = Token("tok_number", 43)
    /\ (FirstUnit /\ input = <<120, 32, 52, 48>>) =>
          /\ Parsed(VariableExprAST(<<120>>))
          /\ CurTok = Token("tok_number", 40)

(***************************************************************************)
(* C14 - Rollback on body failure.  In every state the generator reaches,  *)
(* lowering a FunctionDef whose name the function table holds as a         *)
(* declaration without a body and whose body fails to lower leaves the     *)
(* function table as it was before the lowering, so the function the       *)
(* extern declared is still declared afterwards.                           *)
(***************************************************************************)
C14_Rollback ==
    gpc = "run" =>
        \A f \in FunctionNodes : \A ub \in UBOutcomes :
            ( /\ DeclaredOnly(TheModule, f.Proto.Name)
              /\ Lowered(f, ub).v = Null ) =>
                /\ Lowered(f, ub).g.M = TheModule
                /\ DeclaredOnly(Lowered(f, ub).g.M, f.Proto.Name)

(***************************************************************************)
(* C15 - Symbol table of a FunctionDef.  In every state the generator      *)
(* reaches, when a FunctionDef over a declaration is lowered (body 1, which *)
(* reads no variable), the keys of the symbol table are exactly the        *)
(* parameter names of the FunctionDef's own prototype, each bound to the   *)
(* backend parameter at the same position, whatever names and count the    *)
(* extern that declared the function gave.                                 *)
(***************************************************************************)
C15_OwnParams ==
    gpc = "run" =>
        \A f \in FunctionNodes : \A ub \in UBOutcomes :
            ( /\ DeclaredOnly(TheModule, f.Proto.Name)
              /\ f.Body = Const(1) ) =>
                LET r == Lowered(f, ub) IN
                /\ DOMAIN r.g.NV = {f.Proto.Args[i] : i \in 1..Len(f.Proto.Args)}
                /\ \A i \in 1..Len(f.Proto.Args) :
                      r.g.NV[f.Proto.Args[i]] = Argument(f.Proto.Name, i)

(***************************************************************************)
(* Vocabulary of the claims on the lowering of expressions.  AtBody(f) is  *)
(* the lowering state in which the body of the FunctionDef f, lowered over *)
(* its declaration, starts: the entry block is open and the symbol table   *)
(* holds the arguments of the function.                                    *)
(***************************************************************************)
UnknownVariable(n) == [msg |-> "Unknown variable name : ", arg |-> n]
UnknownFunction(n) == [msg |-> ": unknown function referenced", arg |-> n]

AtBody(f) ==
    LET i == getFunction(TheModule, f.Proto.Name) IN
    [M |-> [TheModule EXCEPT ![i].blocks = <<<<>>>>],
     NV |-> BindArgs(<<>>, TheModule[i], 1),
     ip |-> f.Proto.Name,
     diags |-> <<>>]

Opcodes(g, n) ==
    LET b == g.M[getFunction(g.M, n)].blocks[1] IN {b[j].opcode : j \in 1..Len(b)}

(***************************************************************************)
(* C16 - BinaryOp short-circuit.  In every state the generator reaches,    *)
(* for every definition over a declaration whose body is a BinaryOp: when  *)
(* the left operand fails to lower, the right operand is not lowered, so   *)
(* the lowering of the BinaryOp fails and leaves the generator exactly as  *)
(* the left operand left it (no diagnostic, instruction or table entry     *)
(* from the right subtree); and when either operand fails, the lowering    *)
(* fails and the block holds no arithmetic instruction.                    *)
(***************************************************************************)
C16_ShortCircuit ==
    gpc = "run" =>
        \A f \in ExprFunctions :
            ( /\ f.Body.kind = "Binary"
              /\ DeclaredOnly(TheModule, f.Proto.Name) ) =>
                LET L == ExprCodeGen(f.Body.LHS, AtBody(f))
                    R == ExprCodeGen(f.Body.RHS, L.g)
                    r == ExprCodeGen(f.Body, AtBody(f))
                IN  /\ L.v = Null => (r.v = Null /\ r.g = L.g)
                    /\ (L.v = Null \/ R.v = Null) =>
                          /\ r.v = Null
                          /\ "fadd" \notin Opcodes(r.g, f.Proto.Name)

(***************************************************************************)
(* C17 - Call order.  In every state the generator reaches, for every      *)
(* definition over a declaration whose body is a Call: when the function   *)
(* table does not hold the callee, the lowering fails with the diagnostic  *)
(* "unknown function referenced" and nothing else changes (no argument was *)
(* lowered); when it holds the callee with two parameters and the call has *)
(* two arguments, the arguments are lowered left to right, the first one   *)
(* that fails ends the lowering with nothing after it (no later argument   *)
(* lowered, no call emitted), and when both lower the call instruction     *)
(* emitted carries the callee and the two values in order.                 *)
(***************************************************************************)
C17_CallOrder ==
    gpc = "run" =>
        \A f \in ExprFunctions :
            ( /\ f.Body.kind = "Call"
              /\ DeclaredOnly(TheModule, f.Proto.Name) ) =>
                LET g0 == AtBody(f)
                    c == getFunction(g0.M, f.Body.Callee)
                    r == ExprCodeGen(f.Body, g0)
                IN  /\ c = 0 =>
                          /\ r.v = Null
                          /\ r.g = [g0 EXCEPT
                                      !.diags = <<UnknownFunction(f.Body.Callee)>>]
                    /\ ( /\ c # 0
                         /\ Len(g0.M[c].args) = 2
                         /\ Len(f.Body.Args) = 2 ) =>
                          LET a1 == ExprCodeGen(f.Body.Args[1], g0)
                              a2 == ExprCodeGen(f.Body.Args[2], a1.g)
                              call == Instruction("call",
                                          <<FunctionValue(f.Body.Callee), a1.v, a2.v>>,
                                          "calltmp")
                          IN  IF a1.v = Null THEN r.v = Null /\ r.g = a1.g
                              ELSE IF a2.v = Null THEN r.v = Null /\ r.g = a2.g
                              ELSE /\ r.v = call
                                   /\ r.g = Emit(a2.g, call).g

\* the call h(w, v) has just been lowered in a definition, h having two
\* parameters: the first argument failed and the second was not looked up
C17_Witness ==
    /\ getFunction(TheModule, H) # 0
    /\ Len(TheModule[getFunction(TheModule, H)].args) = 2
    /\ ret = Null
    /\ diags = <<UnknownVariable(W)>>
    /\ W \in DOMAIN NamedValues
    /\ V \notin DOMAIN NamedValues

(***************************************************************************)
(* C18 - Per-function symbol-table reset.  In every state the generator    *)
(* reaches, whatever the symbol table holds from earlier lowerings, the    *)
(* lowering of a FunctionDef (over its declaration) whose body is a        *)
(* VariableRef to a name that its own prototype does not declare fails     *)
(* with the diagnostic "Unknown variable name".                            *)
(***************************************************************************)
C18_Reset ==
    gpc = "run" =>
        \A f \in FunctionNodes : \A ub \in UBOutcomes :
            ( /\ DeclaredOnly(TheModule, f.Proto.Name)
              /\ f.Body.kind = "Variable"
              /\ \A i \in 1..Len(f.Proto.Args) : f.Proto.Args[i] # f.Body.Name ) =>
                /\ Lowered(f, ub).v = Null
                /\ Lowered(f, ub).g.diags = <<UnknownVariable(f.Body.Name)>>

(***************************************************************************)
(* C19 - Duplicate parameter names.  In every state the generator reaches, *)
(* lowering the FunctionDef g(x x) with body x over the declaration that   *)
(* extern g(x x) made succeeds, and the VariableRef x resolves to the last *)
(* parameter position carrying the name: the function returns its second   *)
(* argument.                                                               *)
(***************************************************************************)
C19_Duplicates ==
    gpc = "run" =>
        \A f \in ExprFunctions : \A ub \in UBOutcomes :
            ( /\ f.Proto = PrototypeAST(G, <<X, X>>)
              /\ f.Body = Var(X)
              /\ DeclaredOnly(TheModule, G)
              /\ Len(TheModule[getFunction(TheModule, G)].args) = 2 ) =>
                LET r == Lowered(f, ub) IN
                /\ r.v = FunctionValue(G)
                /\ r.g.M[getFunction(r.g.M, G)].blocks =
                      << <<Instruction("ret", <<Argument(G, 2)>>, "")>> >>

(***************************************************************************)
(* C20 - A failed variable lookup leaves the symbol table unchanged.  In   *)
(* every state the generator reaches, when the lowering of a FunctionDef   *)
(* (over its declaration) whose body is a VariableRef fails, it writes the *)
(* diagnostic "Unknown variable name" and the keys of the symbol table are *)
(* the keys it had before the lookup, those bound at the start of the      *)
(* body.                                                                   *)
(***************************************************************************)
C20_LookupFrame ==
    gpc = "run" =>
        \A f \in FunctionNodes : \A ub \in UBOutcomes :
            ( /\ DeclaredOnly(TheModule, f.Proto.Name)
              /\ f.Body.kind = "Variable"
              /\ Lowered(f, ub).v = Null ) =>
                /\ Lowered(f, ub).g.diags = <<UnknownVariable(f.Body.Name)>>
                /\ DOMAIN Lowered(f, ub).g.NV = DOMAIN AtBody(f).NV

(***************************************************************************)
(* Vocabulary of the claim on the termination of the read loop.  Left is   *)
(* what is still to be lexed: the characters not read, the character held  *)
(* in LastChar and the current token, none of them counted at the end of   *)
(* the input.                                                              *)
(***************************************************************************)
Left ==
    Len(rest) + (IF LastChar = EOF THEN 0 ELSE 1)
              + (IF CurTok.type = "tok_eof" THEN 0 ELSE 1)

\* once the lexer has returned End, a further pull changes nothing
EndSticks == CurTok.type = "tok_eof" => getNextToken(Now) = Now

\* an iteration of the loop that does not return (or abort) consumes
Progress == [][(pc = "loop" /\ pc' = "loop") => Left' < Left]_vars

RECURSIVE Ops(_)
Ops(e) ==
    CASE e.kind = "Binary" -> {e.Op} \cup Ops(e.LHS) \cup Ops(e.RHS)
      [] e.kind = "Call" -> UNION {Ops(e.Args[i]) : i \in 1..Len(e.Args)}
      [] OTHER -> {}

InG ==
    LET F == [name |-> G, args |-> <<X>>, blocks |-> << <<>> >>] IN
    [M |-> <<F>>, NV |-> BindArgs(<<>>, F, 1), ip |-> G, diags |-> <<>>]

InvalidOperator(op) == [msg |-> ": invalid binary operator.", arg |-> <<op>>]

(***************************************************************************)
(* C22 - Operators reaching lowering.  In every state of the read loop,    *)
(* every BinaryOp node of the unit the parser built has its operator among *)
(* '<', '+', '-', '*', and lowering the expression of the unit emits no    *)
(* division instruction and writes no "invalid binary operator"            *)
(* diagnostic.                                                             *)
(***************************************************************************)
C22_TableOps ==
    (parsed # Null /\ parsed.kind = "Function") =>
        LET r == ExprCodeGen(parsed.Body, InG) IN
        /\ Ops(parsed.Body) \subseteq TableOps
        /\ "fdiv" \notin Opcodes(r.g, G)
        /\ \A i \in 1..Len(r.g.diags) :
              r.g.diags[i].msg # ": invalid binary operator."

\* "/1+1": '/' fails the first unit and is skipped; the second unit is
\* 1+1, which lowers to one fadd
C22_Witness ==
    /\ input = <<47, 49, 43, 49>>
    /\ nunits = 2
    /\ Parsed(Bin(43, Num(1), Num(1)))
    /\ Opcodes(ExprCodeGen(parsed.Body, InG).g, G) = {"fadd"}

=============================================================================
